---- MODULE Spec2Model ----
(***************************************************************************)
(* Model of the SonicDub browser application:                              *)
(*   - the Session Orchestrator  (src/App.tsx, component App),             *)
(*   - the AI Service Gateway    (src/services/gemini.ts),                 *)
(*   - the Media Container Encoder (src/services/gemini.ts, createWavUrl). *)
(* React state is modelled by the variables state, songData, error and     *)
(* isDubbingLoading.  Every async handler is split at its await: the part  *)
(* before the await is the trigger action, the part after it is a          *)
(* completion action that runs when the pending promise settles.           *)
(***************************************************************************)
EXTENDS Integers, Sequences, FiniteSets, Bags, TLC

VARIABLES
    state,             \* App.tsx:9    useState<AppState>
    songData,          \* App.tsx:10   useState<SongData>
    error,             \* App.tsx:20   useState<string | null>, "" is null
    isDubbingLoading,  \* App.tsx:21
    inflight,          \* the bag of pending async handlers
    liveUrls,          \* object URLs created by URL.createObjectURL and not revoked
    mounted,           \* FALSE once a render of App has thrown (tree unmounted)
    apiKey,            \* process.env.API_KEY is set (gemini.ts:6)
    last,              \* history: the step that produced this state
    gwIn,              \* SpecGateway: the service response given to the gateway
    gwOut              \* SpecGateway: the function applied to it and its result

vars == <<state, songData, error, isDubbingLoading, inflight, liveUrls,
          mounted, apiKey, last, gwIn, gwOut>>

orchVars == <<state, songData, error, isDubbingLoading, inflight, liveUrls,
              mounted, apiKey, last>>

gwVars == <<gwIn, gwOut>>

----------------------------------------------------------------------------
(* Bounds of the model *)

MaxInflight == 2      \* pending Gateway calls kept at once
MaxUrls == 3          \* object URLs created in one run
MaxBase64Len == 340   \* longest base64 audio string tried at every length
MaxSeed == 1          \* character patterns tried per length

----------------------------------------------------------------------------
(* Types (src/components/AudioVisualizer.tsx:78-126, the types module) *)

AppState == {"IDLE", "ANALYZING", "LYRICS_REVIEW", "DUBBING", "COMPLETE", "ERROR"}

TARGET_LANGUAGES ==
    {"Spanish", "French", "German", "Japanese", "Korean", "Chinese",
     "Italian", "Portuguese"}

\* File | null; only the size of a File is read by the orchestrator.
NoFile == [present |-> FALSE, size |-> 0]
File(sz) == [present |-> TRUE, size |-> sz]

\* AnalysisResult | null.  hasLyrics and hasEmotion tell whether the parsed
\* object carries the lyrics array and the emotion string, the two fields
\* the render dereferences.
NoAnalysis ==
    [present |-> FALSE, hasLyrics |-> FALSE, hasEmotion |-> FALSE, gender |-> ""]
Analysis(l, e, g) ==
    [present |-> TRUE, hasLyrics |-> l, hasEmotion |-> e, gender |-> g]

TranslatedLine(o, t) == [original |-> o, translated |-> t]

InitialSongData ==
    [file |-> NoFile, audioUrl |-> 0, analysis |-> NoAnalysis,
     translations |-> <<>>, targetLanguage |-> "Spanish", dubbedAudioUrl |-> 0]

TenMiB == 10 * 1024 * 1024

\* Sizes of the files the user picks.
FileSizes == {TenMiB, TenMiB + 1, 12 * 1000 * 1000}

----------------------------------------------------------------------------
(* Media Container Encoder: createWavUrl, src/services/gemini.ts:135-173 *)

\* A base64 string is a sequence of alphabet indices 0..63; 64 is '='.
PadChar == 64

Base64Chars == 0 .. PadChar

TwoPow8 == 2 ^ 8
TwoPow16 == 2 ^ 16
TwoPow24 == 2 ^ 24

\* atob, step 2 of forgiving-base64 decode: a string whose length is a
\* multiple of four loses one or two trailing '='.
StripPadding(s) ==
    IF Len(s) > 0 /\ Len(s) % 4 = 0 /\ s[Len(s)] = PadChar
    THEN IF s[Len(s) - 1] = PadChar
         THEN SubSeq(s, 1, Len(s) - 2)
         ELSE SubSeq(s, 1, Len(s) - 1)
    ELSE s

\* atob throws InvalidCharacterError: length 1 mod 4, or a character outside
\* the alphabet is left after the padding was removed.
AtobThrows(s) ==
    LET t == StripPadding(s)
    IN  \/ Len(t) % 4 = 1
        \/ \E i \in 1 .. Len(t) : t[i] = PadChar

\* The messages of atob's InvalidCharacterError are the engine's; these are
\* the texts of Node 20, browsers word them differently.
MsgAtob == "The string to be decoded is not correctly encoded."
MsgAtobInvalidCharacter == "Invalid character"

\* The message atob throws with.  "Invalid character": a character outside
\* the alphabet, a '=' followed by another character, or more than two '='
\* ("=l", "A===", "l===").  Otherwise the "not correctly encoded" text when
\* the characters other than '=' number 1 mod 4 ("l", "l=", "l=="), and
\* "Invalid character" for any other string it rejects ("=", "AA=",
\* "TWFu=").
AtobMessage(s) ==
    LET pads == {i \in 1 .. Len(s) : s[i] = PadChar}
    IN  IF \/ \E i \in 1 .. Len(s) : s[i] \notin Base64Chars \cup {PadChar}
           \/ \E i \in pads : \E k \in (i + 1) .. Len(s) : k \notin pads
           \/ Cardinality(pads) > 2
        THEN MsgAtobInvalidCharacter
        ELSE IF (Len(s) - Cardinality(pads)) % 4 = 1
        THEN MsgAtob
        ELSE MsgAtobInvalidCharacter

\* atob: every 8 bits of the 6-bit stream make one char code; the bits left
\* over are dropped.  The result is indexed from 1.
Atob(s) ==
    LET t == StripPadding(s)
        n == (Len(t) * 6) \div 8
        Byte(j) ==
            LET k == ((8 * j) \div 6) + 1
                o == (8 * j) % 6
            IN  CASE o = 0 -> t[k] * 4 + (t[k + 1] \div 16)
                  [] o = 2 -> (t[k] % 16) * 16 + (t[k + 1] \div 4)
                  [] o = 4 -> (t[k] % 4) * 64 + t[k + 1]
    IN  [j \in 1 .. n |-> Byte(j - 1)]

\* DataView over the 44-byte ArrayBuffer: a function from offset to byte.
NewHeader == [i \in 0 .. 43 |-> 0]

SetUint8(view, offset, v) == [view EXCEPT ![offset] = v % TwoPow8]

\* DataView.setUint16(offset, v, true): little-endian.
SetUint16(view, offset, v) ==
    LET w == v % TwoPow16
    IN  [view EXCEPT ![offset] = w % TwoPow8,
                     ![offset + 1] = w \div TwoPow8]

\* DataView.setUint32(offset, v, false): most significant byte first
SetUint32BigEndian(view, offset, v) ==
    [view EXCEPT ![offset + 3] = v % TwoPow8,
                 ![offset + 2] = (v \div TwoPow8) % TwoPow8,
                 ![offset + 1] = (v \div TwoPow16) % TwoPow8,
                 ![offset] = (v \div TwoPow24) % TwoPow8]

\* DataView.setUint32(offset, v, true): the four low-order bytes of v, least
\* significant first (taking each byte modulo 2^8 is the reduction modulo 2^32).
SetUint32(view, offset, v) ==
    [view EXCEPT ![offset] = v % TwoPow8,
                 ![offset + 1] = (v \div TwoPow8) % TwoPow8,
                 ![offset + 2] = (v \div TwoPow16) % TwoPow8,
                 ![offset + 3] = (v \div TwoPow24) % TwoPow8]

\* writeString (gemini.ts:151-155); str is the sequence of char codes.
WriteString(view, offset, str) ==
    [i \in 0 .. 43 |->
        IF i >= offset /\ i < offset + Len(str)
        THEN str[i - offset + 1] % TwoPow8
        ELSE view[i]]

TagRIFF == <<82, 73, 70, 70>>
TagWAVE == <<87, 65, 86, 69>>
TagFmt == <<102, 109, 116, 32>>
TagData == <<100, 97, 116, 97>>

sampleRate == 24000
numChannels == 1
bitsPerSample == 16

\* The header writes of gemini.ts:157-169, in order.
WavHeader(pcmLength) ==
    LET v1 == WriteString(NewHeader, 0, TagRIFF)
        v2 == SetUint32(v1, 4, 36 + pcmLength)
        v3 == WriteString(v2, 8, TagWAVE)
        v4 == WriteString(v3, 12, TagFmt)
        v5 == SetUint32(v4, 16, 16)
        v6 == SetUint16(v5, 20, 1)
        v7 == SetUint16(v6, 22, numChannels)
        v8 == SetUint32(v7, 24, sampleRate)
        v9 == SetUint32(v8, 28, sampleRate * numChannels * 2)
        v10 == SetUint16(v9, 32, numChannels * 2)
        v11 == SetUint16(v10, 34, bitsPerSample)
        v12 == WriteString(v11, 36, TagData)
    IN  SetUint32(v12, 40, pcmLength)

\* new Blob([header, pcmData]): the bytes of the blob, indexed from 1.
WavBlob(pcmData) ==
    LET h == WavHeader(Len(pcmData))
    IN  [i \in 1 .. 44 |-> h[i - 1]] \o pcmData

\* createWavUrl up to the blob: the bytes behind the returned object URL.
createWavUrl(pcmBase64) == WavBlob(Atob(pcmBase64))

----------------------------------------------------------------------------
(* AI Service Gateway, src/services/gemini.ts *)

MsgNoApiKey == "API Key not found. Please set REACT_APP_GEMINI_API_KEY or ensure process.env.API_KEY is available."
MsgNoAnalysisResponse == "No response from analysis model"
MsgNoTranslationResponse == "No response from translation model"
MsgRefusedPrefix == "Model refused or failed to generate audio: "
MsgNoAudioPrefix == "No audio data generated. Model finish reason: "
\* The message of the SyntaxError of JSON.parse on JsonTruncated is the
\* engine's; this is the text of Node 20 (V8).
MsgJsonSyntax == "Expected property name or '}' in JSON at position 2"

\* What a gateway operation gives its caller: the resolved value, or the
\* message of the Error it throws ("" when the thrown value has no message).
Resolved(v) == [ok |-> TRUE, message |-> "", value |-> v]
Thrown(m, none) == [ok |-> FALSE, message |-> m, value |-> none]

\* What ai.models.generateContent gives for a JSON request: it rejects with
\* an error, or resolves with a response whose .text is "" when absent.
Rejection(m) == [rejected |-> TRUE, message |-> m, text |-> ""]
TextResponse(t) == [rejected |-> FALSE, message |-> "", text |-> t]

JsonAnalysisFull == "{\"language\":\"English\",\"genre\":\"Pop\",\"bpm\":120,\"emotion\":\"Joyful\",\"gender\":\"FEMALE\",\"lyrics\":[\"la la\"],\"summary\":\"A song\"}"
JsonAnalysisNoEmotion == "{\"gender\":\"FEMALE\",\"lyrics\":[\"la la\"]}"
JsonAnalysisNoLyrics == "{\"gender\":\"FEMALE\"}"
JsonNull == "null"
JsonTruncated == "[{"
JsonLinesOne == "[{\"original\":\"la la\",\"translated\":\"la la la\"}]"
JsonLinesNone == "[]"

\* JSON.parse on the documents above: the value, or throws SyntaxError.
JsonParseThrows(text) == text = JsonTruncated

JsonParseAnalysis(text) ==
    CASE text = JsonAnalysisFull -> Analysis(TRUE, TRUE, "FEMALE")
      [] text = JsonAnalysisNoEmotion -> Analysis(TRUE, FALSE, "FEMALE")
      [] text = JsonAnalysisNoLyrics -> Analysis(FALSE, FALSE, "FEMALE")
      [] OTHER -> NoAnalysis

JsonParseLines(text) ==
    CASE text = JsonLinesOne -> <<TranslatedLine("la la", "la la la")>>
      [] OTHER -> <<>>

\* analyzeAudio after getAiClient (gemini.ts:45-79).
analyzeAudio(response) ==
    IF response.rejected THEN Thrown(response.message, NoAnalysis)
    ELSE IF response.text = "" THEN Thrown(MsgNoAnalysisResponse, NoAnalysis)
    ELSE IF JsonParseThrows(response.text) THEN Thrown(MsgJsonSyntax, NoAnalysis)
    ELSE Resolved(JsonParseAnalysis(response.text))

\* translateLyrics after getAiClient (gemini.ts:105-132).
translateLyrics(response) ==
    IF response.rejected THEN Thrown(response.message, <<>>)
    ELSE IF response.text = "" THEN Thrown(MsgNoTranslationResponse, <<>>)
    ELSE IF JsonParseThrows(response.text) THEN Thrown(MsgJsonSyntax, <<>>)
    ELSE Resolved(JsonParseLines(response.text))

\* A part of the first candidate's content: text is "" when absent, data
\* (inlineData.data, a base64 string) is <<>> when absent or empty.
Part(t, d) == [text |-> t, data |-> d]

\* What generateContent gives for the speech request.
SpeechRejection(m) ==
    [rejected |-> TRUE, message |-> m, hasCandidate |-> FALSE,
     parts |-> <<>>, finishReason |-> ""]
SpeechResponse(c, ps, fr) ==
    [rejected |-> FALSE, message |-> "", hasCandidate |-> c,
     parts |-> ps, finishReason |-> fr]

\* candidate?.content?.parts?.[0]?.text (gemini.ts:219, 226)
FirstText(response) ==
    IF response.hasCandidate /\ Len(response.parts) > 0
    THEN response.parts[1].text ELSE ""

\* candidate?.content?.parts?.[0]?.inlineData?.data (gemini.ts:223)
FirstAudio(response) ==
    IF response.hasCandidate /\ Len(response.parts) > 0
    THEN response.parts[1].data ELSE <<>>

\* candidate?.finishReason || 'UNKNOWN' (gemini.ts:229)
FinishReason(response) ==
    IF response.hasCandidate /\ response.finishReason # ""
    THEN response.finishReason ELSE "UNKNOWN"

\* generateDubbedAudio after getAiClient (gemini.ts:190-238); the value is
\* the blob behind the object URL it returns.
generateDubbedAudio(response) ==
    IF response.rejected THEN Thrown(response.message, <<>>)
    ELSE IF FirstAudio(response) = <<>>
    THEN IF FirstText(response) # ""
         THEN Thrown(MsgRefusedPrefix \o FirstText(response), <<>>)
         ELSE Thrown(MsgNoAudioPrefix \o FinishReason(response) \o ".", <<>>)
    ELSE IF AtobThrows(FirstAudio(response))
         THEN Thrown(AtobMessage(FirstAudio(response)), <<>>)
    ELSE Resolved(createWavUrl(FirstAudio(response)))

----------------------------------------------------------------------------
(* Session Orchestrator, src/App.tsx *)

MsgTooLarge == "File size must be less than 10MB for this demo."
MsgAnalysisFailed == "Analysis failed. Please try again."
MsgTranslationFailed == "Translation failed."
MsgDubbingFailed == "Dubbing generation failed."

\* err.message || fallback
OrElse(message, fallback) == IF message = "" THEN fallback ELSE message

\* The Session fields a handler reads from the songData of its closure:
\* startAnalysis the file (App.tsx:61-62), handleTranslate the analysis
\* (App.tsx:76-81), handleDubbing the analysis and the translations
\* (App.tsx:98-102).  The target language they also pass goes into the
\* prompt text only, which no response here depends on; it is not kept.
NoArgs ==
    [file |-> NoFile, analysis |-> NoAnalysis, translations |-> <<>>]
AnalyzeArgs(sd) == [NoArgs EXCEPT !.file = sd.file]
TranslateArgs(sd) == [NoArgs EXCEPT !.analysis = sd.analysis]
SynthArgs(sd) ==
    [NoArgs EXCEPT !.analysis = sd.analysis, !.translations = sd.translations]

\* A pending async handler: the operation it awaits, where it is suspended
\* ("read": FileReader, "net": generateContent), what it read from its
\* closure, and whether resetApp ran since it was started.
Call(op, stage, args) == [op |-> op, stage |-> stage, stale |-> FALSE, args |-> args]
NoCall == [op |-> "", stage |-> "", stale |-> FALSE, args |-> NoArgs]

\* The promises settle independently of the order they were made in, so
\* the pending handlers form a bag.
Pending == BagToSet(inflight)
Started(c) == inflight (+) SetToBag({c})
Settled(c) == inflight (-) SetToBag({c})

\* resetApp leaves the pending handlers running; each is marked as started
\* before the reset.
Stale(c) == [c EXCEPT !.stale = TRUE]
MarkStale(bag) ==
    [c \in {Stale(d) : d \in BagToSet(bag)} |->
        CopiesIn(c, bag) + CopiesIn([c EXCEPT !.stale = FALSE], bag)]

\* History of the last step: the event, the pending call it settled, the
\* response text and file size (or blob length) of it, whether the
\* component was still mounted, and the state, songData, error and number
\* of pending calls it started from.
Step(ev, call, text, size) ==
    [ev |-> ev, call |-> call, text |-> text, size |-> size,
     applied |-> mounted,
     stateBefore |-> state, before |-> songData, errorBefore |-> error,
     pendingBefore |-> BagCardinality(inflight)]

\* URL.createObjectURL: a URL never handed out before.  No URL is ever
\* revoked (there is no URL.revokeObjectURL in the sources), so the live
\* ones are 1 .. n.
FreshUrl == Cardinality(liveUrls) + 1

\* The render of App throws (and React unmounts the tree) when the lyrics
\* panel maps over a missing lyrics array (App.tsx:254, 286) or calls
\* toLowerCase on a missing emotion (App.tsx:324).
RenderThrows(st, sd) ==
    /\ st = "LYRICS_REVIEW"
    /\ sd.analysis.present
    /\ ~(sd.analysis.hasLyrics /\ sd.analysis.hasEmotion)

\* What the rendered UI offers (App.tsx:160, 184, 217, 254, 338, 369).
ShowsReset == mounted /\ state # "IDLE"
ShowsUpload == mounted /\ state = "IDLE"
ShowsAnalyze == mounted /\ state = "IDLE" /\ songData.file.present
ShowsLyricsReview == mounted /\ state = "LYRICS_REVIEW" /\ songData.analysis.present
ShowsDubbing == mounted /\ state = "DUBBING"

\* The Button component is not among the sources; a button given isLoading
\* is taken to be disabled, as the specification expects of the caller.
ButtonEnabled(isLoading) == ~isLoading

\* resetApp (App.tsx:27-39)
resetApp ==
    /\ ShowsReset
    /\ state' = "IDLE"
    /\ songData' = InitialSongData
    /\ error' = ""
    /\ isDubbingLoading' = FALSE
    /\ inflight' = MarkStale(inflight)
    /\ last' = Step("reset", NoCall, "", 0)
    /\ UNCHANGED <<liveUrls, mounted, apiKey>>

\* handleFileUpload (App.tsx:42-54), no file chosen
handleFileUploadNone ==
    /\ ShowsUpload
    /\ last' = Step("selectFileNone", NoCall, "", 0)
    /\ UNCHANGED <<state, songData, error, isDubbingLoading, inflight,
                   liveUrls, mounted, apiKey>>

\* file.size >= 10 * 1024 * 1024: the limit itself refused
TooLargeInclusive(size) == size >= 10 * 1024 * 1024

\* file.size > 10 * 1024 * 1024 (App.tsx:46)
TooLarge(size) == size > 10 * 1024 * 1024

\* handleFileUpload (App.tsx:42-54), a file of the given size
handleFileUpload(size) ==
    /\ ShowsUpload
    /\ IF TooLarge(size)
       THEN /\ error' = MsgTooLarge
            /\ last' = Step("selectFileTooLarge", NoCall, "", size)
            /\ UNCHANGED <<songData, liveUrls>>
       ELSE /\ Cardinality(liveUrls) < MaxUrls
            /\ liveUrls' = liveUrls \cup {FreshUrl}
            /\ songData' = [songData EXCEPT !.file = File(size),
                                            !.audioUrl = FreshUrl]
            /\ error' = ""
            /\ last' = Step("selectFile", NoCall, "", size)
    /\ UNCHANGED <<state, isDubbingLoading, inflight, mounted, apiKey>>

\* startAnalysis up to its first await (App.tsx:57-61)
startAnalysis ==
    /\ ShowsAnalyze
    /\ songData.file.present
    /\ BagCardinality(inflight) < MaxInflight
    /\ state' = "ANALYZING"
    /\ inflight' = Started(Call("analyze", "read", AnalyzeArgs(songData)))
    /\ last' = Step("startAnalysis", NoCall, "", 0)
    /\ UNCHANGED <<songData, error, isDubbingLoading, liveUrls, mounted, apiKey>>

\* getAiClient (gemini.ts:5-11) throws when process.env.API_KEY is empty;
\* every gateway operation calls it before it builds a request.
getAiClientNeverThrows(key) == FALSE
getAiClientThrows(key) == ~key

\* What last.text holds when reader.onerror rejected the file read
\* (gemini.ts:26): a ProgressEvent, which has no message.
ReadRejected == "reader.onerror"

\* A catch block that reported the failure through the state tag.
AnalysisCatchErrorTag(c, message, text) ==
    /\ inflight' = Settled(c)
    /\ last' = Step("analyzeFail", c, text, 0)
    /\ IF mounted
       THEN /\ error' = OrElse(message, MsgAnalysisFailed)
            /\ state' = "ERROR"
       ELSE UNCHANGED <<error, state>>
    /\ UNCHANGED <<songData, isDubbingLoading, liveUrls, mounted, apiKey>>

\* The catch block of startAnalysis (App.tsx:65-68)
AnalysisCatch(c, message, text) ==
    /\ inflight' = Settled(c)
    /\ last' = Step("analyzeFail", c, text, 0)
    /\ IF mounted
       THEN /\ error' = OrElse(message, MsgAnalysisFailed)
            /\ state' = "IDLE"
       ELSE UNCHANGED <<error, state>>
    /\ UNCHANGED <<songData, isDubbingLoading, liveUrls, mounted, apiKey>>

\* fileToGenerativePart settles (gemini.ts:14-28), then analyzeAudio calls
\* getAiClient (gemini.ts:5-11, 31) and issues the request.
AnalyzeRead(c, readOk) ==
    /\ c \in Pending
    /\ c.op = "analyze" /\ c.stage = "read"
    /\ IF ~readOk THEN AnalysisCatch(c, "", ReadRejected)
       ELSE IF getAiClientThrows(apiKey) THEN AnalysisCatch(c, MsgNoApiKey, "")
       ELSE /\ inflight' = Settled(c) (+) SetToBag({[c EXCEPT !.stage = "net"]})
            /\ last' = Step("analyzeRequest", c, "", 0)
            /\ UNCHANGED <<state, songData, error, isDubbingLoading,
                           liveUrls, mounted, apiKey>>

\* generateContent settles for analyzeAudio; the rest of startAnalysis
\* (App.tsx:62-68)
AnalyzeSettle(c, response) ==
    /\ c \in Pending
    /\ c.op = "analyze" /\ c.stage = "net"
    /\ LET r == analyzeAudio(response)
       IN  IF ~r.ok THEN AnalysisCatch(c, r.message, response.text)
           ELSE /\ inflight' = Settled(c)
                /\ last' = Step("analyzeOk", c, response.text, 0)
                /\ IF mounted
                   THEN /\ songData' = [songData EXCEPT !.analysis = r.value]
                        /\ state' = "LYRICS_REVIEW"
                        /\ mounted' = ~RenderThrows(state', songData')
                   ELSE UNCHANGED <<songData, state, mounted>>
                /\ UNCHANGED <<error, isDubbingLoading, liveUrls, apiKey>>

\* The target-language buttons (App.tsx:303-315)
selectTargetLanguage(lang) ==
    /\ ShowsLyricsReview
    /\ songData' = [songData EXCEPT !.targetLanguage = lang]
    /\ last' = Step("selectTargetLanguage", NoCall, lang, 0)
    /\ UNCHANGED <<state, error, isDubbingLoading, inflight, liveUrls,
                   mounted, apiKey>>

\* handleTranslate up to its await (App.tsx:72-81).  translateLyrics calls
\* getAiClient before it awaits anything, so without a key the catch block
\* (App.tsx:84-87) runs before any other event.
handleTranslate ==
    /\ ShowsLyricsReview
    /\ songData.analysis.present
    /\ IF getAiClientThrows(apiKey)
       THEN /\ error' = MsgNoApiKey
            /\ state' = "LYRICS_REVIEW"
            /\ last' = Step("translateFail", Call("translate", "", TranslateArgs(songData)), "", 0)
            /\ UNCHANGED inflight
       ELSE /\ BagCardinality(inflight) < MaxInflight
            /\ state' = "ANALYZING"
            /\ inflight' = Started(Call("translate", "net", TranslateArgs(songData)))
            /\ last' = Step("startTranslation", NoCall, "", 0)
            /\ UNCHANGED error
    /\ UNCHANGED <<songData, isDubbingLoading, liveUrls, mounted, apiKey>>

\* generateContent settles for translateLyrics; the rest of handleTranslate
\* (App.tsx:82-87)
TranslateSettle(c, response) ==
    /\ c \in Pending
    /\ c.op = "translate" /\ c.stage = "net"
    /\ inflight' = Settled(c)
    /\ LET r == translateLyrics(response)
       IN  IF r.ok
           THEN /\ last' = Step("translateOk", c, response.text, 0)
                /\ IF mounted
                   THEN /\ songData' = [songData EXCEPT !.translations = r.value]
                        /\ state' = "DUBBING"
                   ELSE UNCHANGED <<songData, state>>
                /\ UNCHANGED error
           ELSE /\ last' = Step("translateFail", c, response.text, 0)
                /\ IF mounted
                   THEN /\ error' = OrElse(r.message, MsgTranslationFailed)
                        /\ state' = "LYRICS_REVIEW"
                        
                   ELSE UNCHANGED <<error, state>>
                /\ UNCHANGED songData
    /\ mounted' = (mounted /\ ~RenderThrows(state', songData'))
    /\ UNCHANGED <<isDubbingLoading, liveUrls, apiKey>>

\* handleDubbing up to its await (App.tsx:91-102).  generateDubbedAudio calls
\* getAiClient before it awaits anything, so without a key the catch and
\* finally blocks (App.tsx:106-110) run before any other event.
handleDubbing ==
    /\ ShowsDubbing
    /\ ButtonEnabled(isDubbingLoading)
    /\ songData.analysis.present /\ Len(songData.translations) # 0
    /\ IF getAiClientThrows(apiKey)
       THEN /\ error' = MsgNoApiKey
            /\ isDubbingLoading' = FALSE
            /\ last' = Step("synthFail", Call("synthesize", "", SynthArgs(songData)), "", 0)
            /\ UNCHANGED inflight
       ELSE /\ BagCardinality(inflight) < MaxInflight
            /\ error' = ""
            /\ isDubbingLoading' = TRUE
            /\ inflight' = Started(Call("synthesize", "net", SynthArgs(songData)))
            /\ last' = Step("startSynthesis", NoCall, "", 0)
    /\ UNCHANGED <<state, songData, liveUrls, mounted, apiKey>>

\* generateContent settles for generateDubbedAudio; the rest of
\* handleDubbing (App.tsx:104-110)
SynthSettle(c, response) ==
    /\ c \in Pending
    /\ c.op = "synthesize" /\ c.stage = "net"
    /\ inflight' = Settled(c)
    /\ LET r == generateDubbedAudio(response)
       IN  IF r.ok
           THEN /\ Cardinality(liveUrls) < MaxUrls
                /\ liveUrls' = liveUrls \cup {FreshUrl}
                /\ last' = Step("synthOk", c, FirstText(response), Len(r.value))
                /\ IF mounted
                   THEN /\ songData' = [songData EXCEPT !.dubbedAudioUrl = FreshUrl]
                        /\ state' = "COMPLETE"
                   ELSE UNCHANGED <<songData, state>>
                /\ UNCHANGED error
           ELSE /\ last' = Step("synthFail", c, FirstText(response), 0)
                /\ IF mounted
                   THEN error' = OrElse(r.message, MsgDubbingFailed)
                   ELSE UNCHANGED error
                /\ UNCHANGED <<songData, state, liveUrls>>
    /\ IF mounted THEN isDubbingLoading' = FALSE ELSE UNCHANGED isDubbingLoading
    /\ mounted' = (mounted /\ ~RenderThrows(state', songData'))
    /\ UNCHANGED apiKey

\* The responses the service is given in the orchestrator runs.
JsonResponses(texts) ==
    {Rejection("")} \cup {TextResponse(t) : t \in texts}

AnalyzeResponses ==
    JsonResponses({"", JsonTruncated, JsonNull, JsonAnalysisNoLyrics,
                   JsonAnalysisNoEmotion, JsonAnalysisFull})

TranslateResponses ==
    JsonResponses({"", JsonTruncated, JsonLinesNone, JsonLinesOne})

\* "TWFu", the base64 of the three bytes 77, 97, 110
SomeAudio == <<19, 22, 5, 46>>

RefusalText == "I cannot sing this."

SpeechResponses ==
    { SpeechRejection(""),
      SpeechResponse(TRUE, <<Part("", SomeAudio)>>, "STOP"),
      SpeechResponse(TRUE, <<Part(RefusalText, <<>>)>>, "STOP"),
      SpeechResponse(TRUE, <<>>, "SAFETY"),
      SpeechResponse(FALSE, <<>>, "") }

\* What SpecGateway records: which function was applied to gwIn
\* ("" before the call), and what it gave.
NotCalled == [called |-> FALSE, op |-> "", result |-> Thrown("", <<>>)]
Called(op, r) == [called |-> TRUE, op |-> op, result |-> r]

Init ==
    /\ state = "IDLE"
    /\ songData = InitialSongData
    /\ error = ""
    /\ isDubbingLoading = FALSE
    /\ inflight = EmptyBag
    /\ liveUrls = {}
    /\ mounted = TRUE
    /\ apiKey \in BOOLEAN
    /\ last = [ev |-> "init", call |-> NoCall, text |-> "", size |-> 0,
               applied |-> TRUE, stateBefore |-> "IDLE",
               before |-> InitialSongData, errorBefore |-> "",
               pendingBefore |-> 0]
    /\ gwIn = SpeechRejection("")
    /\ gwOut = NotCalled

Next ==
    \/ resetApp /\ UNCHANGED gwVars
    \/ handleFileUploadNone /\ UNCHANGED gwVars
    \/ \E size \in FileSizes : handleFileUpload(size) /\ UNCHANGED gwVars
    \/ startAnalysis /\ UNCHANGED gwVars
    \/ \E c \in Pending, readOk \in BOOLEAN :
          AnalyzeRead(c, readOk) /\ UNCHANGED gwVars
    \/ \E c \in Pending, response \in AnalyzeResponses :
          AnalyzeSettle(c, response) /\ UNCHANGED gwVars
    \/ \E lang \in TARGET_LANGUAGES : selectTargetLanguage(lang) /\ UNCHANGED gwVars
    \/ handleTranslate /\ UNCHANGED gwVars
    \/ \E c \in Pending, response \in TranslateResponses :
          TranslateSettle(c, response) /\ UNCHANGED gwVars
    \/ handleDubbing /\ UNCHANGED gwVars
    \/ \E c \in Pending, response \in SpeechResponses :
          SynthSettle(c, response) /\ UNCHANGED gwVars

Spec == Init /\ [][Next]_vars

\* Every pending promise settles: the file read fires onloadend or onerror
\* (gemini.ts:16-27) and every generateContent call is answered or rejected.
AnalyzeReadResponds ==
    \E c \in Pending, readOk \in BOOLEAN :
       AnalyzeRead(c, readOk) /\ UNCHANGED gwVars
AnalyzeResponds ==
    \E c \in Pending, response \in AnalyzeResponses :
       AnalyzeSettle(c, response) /\ UNCHANGED gwVars
TranslateResponds ==
    \E c \in Pending, response \in TranslateResponses :
       TranslateSettle(c, response) /\ UNCHANGED gwVars
SynthResponds ==
    \E c \in Pending, response \in SpeechResponses :
       SynthSettle(c, response) /\ UNCHANGED gwVars

Responsive ==
    /\ WF_vars(AnalyzeReadResponds)
    /\ WF_vars(AnalyzeResponds)
    /\ WF_vars(TranslateResponds)
    /\ WF_vars(SynthResponds)

SpecResponsive == Init /\ [][Next]_vars /\ Responsive

\* getAiClient reads process.env.API_KEY anew on every call (gemini.ts:6),
\* so each call sees the environment of its own time: the credential may be
\* set or unset between two calls.
CredentialChange ==
    /\ apiKey' = ~apiKey
    /\ last' = Step("credentialChange", NoCall, "", 0)
    /\ UNCHANGED <<state, songData, error, isDubbingLoading, inflight,
                   liveUrls, mounted>>

NextCredential ==
    \/ Next
    \/ CredentialChange /\ UNCHANGED gwVars

SpecCredential == Init /\ [][NextCredential]_vars

----------------------------------------------------------------------------
(* The gateway's synthesize on its own: generateDubbedAudio applied to one *)
(* service response, over base64 audio of every length up to the bound.    *)

\* A base64 string of n characters, the last pads of them '='.
Base64String(n, seed, pads) ==
    [i \in 1 .. n |-> IF i > n - pads THEN PadChar ELSE (i * 37 + seed * 11) % 64]

\* The base64 of a 1000-byte payload: 1336 characters ending in "==".
ScenarioBase64 == Base64String(4 * ((1000 + 2) \div 3), 0, 2)

AudioStrings ==
    {Base64String(n, seed, pads) :
        n \in 0 .. MaxBase64Len, seed \in 0 .. MaxSeed, pads \in 0 .. 2}
    \cup {SomeAudio, ScenarioBase64}

FinishReasons == {"", "STOP", "SAFETY"}

GatewayInputs ==
    {SpeechRejection(m) : m \in {"", "503 Service Unavailable"}}
    \cup {SpeechResponse(FALSE, <<>>, "")}
    \cup {SpeechResponse(TRUE, <<>>, fr) : fr \in FinishReasons}
    \cup {SpeechResponse(TRUE, <<Part(t, a)>>, "STOP") :
            t \in {"", RefusalText}, a \in AudioStrings}
    \cup {SpeechResponse(TRUE, <<Part(t, <<>>), p>>, fr) :
            t \in {"", RefusalText},
            p \in {Part("", SomeAudio), Part(RefusalText, <<>>)},
            fr \in FinishReasons}

InitGateway ==
    /\ state = "IDLE"
    /\ songData = InitialSongData
    /\ error = ""
    /\ isDubbingLoading = FALSE
    /\ inflight = EmptyBag
    /\ liveUrls = {}
    /\ mounted = TRUE
    /\ apiKey = TRUE
    /\ last = [ev |-> "init", call |-> NoCall, text |-> "", size |-> 0,
               applied |-> TRUE, stateBefore |-> "IDLE",
               before |-> InitialSongData, errorBefore |-> "",
               pendingBefore |-> 0]
    /\ gwIn \in GatewayInputs
    /\ gwOut = NotCalled

\* generateDubbedAudio (gemini.ts:175-239) on the response gwIn
Synthesize ==
    /\ ~gwOut.called
    /\ gwOut' = Called("generateDubbedAudio", generateDubbedAudio(gwIn))
    /\ UNCHANGED gwIn
    /\ UNCHANGED orchVars

\* createWavUrl (gemini.ts:135-173) on the base64 string of gwIn's first
\* part, the empty string included; atob throws on a malformed one.
Encode ==
    /\ ~gwOut.called
    /\ ~gwIn.rejected
    /\ gwOut' = Called("createWavUrl",
                       IF AtobThrows(FirstAudio(gwIn))
                       THEN Thrown(AtobMessage(FirstAudio(gwIn)), <<>>)
                       ELSE Resolved(createWavUrl(FirstAudio(gwIn))))
    /\ UNCHANGED gwIn
    /\ UNCHANGED orchVars

NextGateway == Synthesize \/ Encode

SpecGateway == InitGateway /\ [][NextGateway]_vars

----------------------------------------------------------------------------
(* Properties of the Session Orchestrator, checked under Spec *)

\* The calls whose request to the service is outstanding.
Outstanding == BagCardinality([c \in {d \in Pending : d.stage = "net"} |-> inflight[c]])

\* C1: after reset, from any state, the state is IDLE, every Session field
\* has its initial value, the error is cleared, the loading flag is false,
\* and the object URLs the Session held (audioUrl, dubbedAudioUrl) have been
\* released.
C1_ResetRestoresAndReleases ==
    last.ev = "reset" =>
        /\ state = "IDLE"
        /\ songData = InitialSongData
        /\ error = ""
        /\ ~isDubbingLoading
        /\ last.before.audioUrl \notin liveUrls
        /\ last.before.dubbedAudioUrl \notin liveUrls

\* C2: when a failure of the work started by startAnalysis has been handled,
\* analysis is unset, the state is IDLE, an error message is recorded, and
\* the file the analysis was started with and its audioUrl are still the
\* Session's.
C2_FailedAnalysis ==
    (last.ev = "analyzeFail" /\ last.applied) =>
        /\ ~songData.analysis.present
        /\ state = "IDLE"
        /\ error # ""
        /\ songData.file = last.call.args.file
        /\ songData.file = last.before.file
        /\ songData.audioUrl = last.before.audioUrl

\* C3: when a failure of the translate call started by startTranslation has
\* been handled, translations is empty, the state is LYRICS_REVIEW, the
\* analysis stored before the call is still the Session's, and an error
\* message is recorded.
C3_FailedTranslation ==
    (last.ev = "translateFail" /\ last.applied) =>
        /\ songData.translations = <<>>
        /\ state = "LYRICS_REVIEW"
        /\ songData.analysis = last.call.args.analysis
        /\ error # ""

\* C4: when a failure of the synthesize call started by startSynthesis has
\* been handled, the state is DUBBING, dubbedAudioUrl is unset, analysis and
\* translations are those the call was started with, an error message is
\* recorded and the loading flag is false; and the state becomes COMPLETE
\* only by a successful call that stored dubbedAudioUrl.
C4_FailedSynthesis ==
    /\ (last.ev = "synthFail" /\ last.applied) =>
          /\ state = "DUBBING"
          /\ songData.dubbedAudioUrl = 0
          /\ songData.analysis = last.call.args.analysis
          /\ songData.translations = last.call.args.translations
          /\ error # ""
          /\ ~isDubbingLoading
    /\ (state = "COMPLETE" /\ last.stateBefore # "COMPLETE") =>
          /\ last.ev = "synthOk"
          /\ songData.dubbedAudioUrl # 0

\* C5: in every reachable state, IDLE or ANALYZING implies that translations
\* is empty, and LYRICS_REVIEW implies that dubbedAudioUrl is unset.
C5_PipelineOrder ==
    /\ state \in {"IDLE", "ANALYZING"} => songData.translations = <<>>
    /\ state = "LYRICS_REVIEW" => songData.dubbedAudioUrl = 0

\* C6: at every moment at most one Gateway operation is outstanding, for
\* every sequence of the triggers the rendered UI offers.
C6_OneOutstanding == Outstanding <= 1

\* C7: selectFile with a file larger than 10 MiB records an error, leaves
\* the state IDLE and the Session's file and audioUrl as they were, and makes
\* no Gateway call; a file of at most 10 MiB is stored with a new live
\* object URL, the state stays IDLE and no Gateway call is made.
C7_FileSizeValidation ==
    /\ last.ev = "selectFileTooLarge" =>
          /\ last.size > TenMiB
          /\ error = MsgTooLarge
          /\ state = "IDLE"
          /\ songData = last.before
          /\ BagCardinality(inflight) = last.pendingBefore
    /\ last.ev = "selectFile" =>
          /\ last.size <= TenMiB
          /\ songData.file = File(last.size)
          /\ songData.audioUrl \in liveUrls
          /\ songData.audioUrl \notin {0, last.before.audioUrl}
          /\ state = "IDLE"
          /\ BagCardinality(inflight) = last.pendingBefore
    /\ last.ev \in {"selectFileTooLarge", "selectFile"} =>
          last.stateBefore = "IDLE"

\* C7 witness: a 12 MB file was refused while an earlier file is selected.
C7_Witness ==
    /\ last.ev = "selectFileTooLarge"
    /\ last.size = 12 * 1000 * 1000
    /\ songData.file = File(TenMiB)
    /\ error = MsgTooLarge

\* C8: content that does not match the expected shape is never assigned to
\* the Session; when analyze returns content without the lyrics field,
\* startAnalysis fails, analysis stays unset and the state reverts to IDLE.
C8_SchemaViolationRejected ==
    /\ songData.analysis.present =>
           songData.analysis.hasLyrics /\ songData.analysis.hasEmotion
    /\ (last.ev \in {"analyzeOk", "analyzeFail"} /\ last.applied
            /\ last.text = JsonAnalysisNoLyrics) =>
          /\ last.ev = "analyzeFail"
          /\ ~songData.analysis.present
          /\ state = "IDLE"

----------------------------------------------------------------------------
(* Properties of the Gateway's synthesize and of the encoder, checked under *)
(* SpecGateway                                                              *)

Wav == gwOut.result.value

\* The little-endian number in the n bytes of the blob from the (zero-based)
\* offset on.
LittleEndian(bytes, offset, n) ==
    LET RECURSIVE Value(_)
        Value(k) == IF k = n THEN 0
                    ELSE bytes[offset + k + 1] + TwoPow8 * Value(k + 1)
    IN  Value(0)

\* C9: for a PCM payload of length L the encoder's output is 44 + L bytes:
\* the 44-byte header, then the payload unchanged; little-endian, bytes 4-7
\* hold L + 36, bytes 40-43 L, 24-27 24000, 28-31 48000, 32-33 2, 34-35 16,
\* 20-21 1 and 22-23 1, with 'RIFF', 'WAVE', 'fmt ', 'data' at 0, 8, 12, 36.
C9_WavLayout ==
    (gwOut.called /\ gwOut.result.ok) =>
        LET payload == Atob(FirstAudio(gwIn))
            L == Len(payload)
        IN  /\ Len(Wav) = 44 + L
            /\ \A i \in 1 .. Len(Wav) : Wav[i] \in 0 .. 255
            /\ SubSeq(Wav, 45, 44 + L) = payload
            /\ LittleEndian(Wav, 4, 4) = L + 36
            /\ LittleEndian(Wav, 40, 4) = L
            /\ LittleEndian(Wav, 24, 4) = 24000
            /\ LittleEndian(Wav, 28, 4) = 48000
            /\ LittleEndian(Wav, 32, 2) = 2
            /\ LittleEndian(Wav, 34, 2) = 16
            /\ LittleEndian(Wav, 20, 2) = 1
            /\ LittleEndian(Wav, 22, 2) = 1
            /\ LittleEndian(Wav, 16, 4) = 16
            /\ SubSeq(Wav, 1, 4) = TagRIFF
            /\ SubSeq(Wav, 9, 12) = TagWAVE
            /\ SubSeq(Wav, 13, 16) = TagFmt
            /\ SubSeq(Wav, 37, 40) = TagData

\* C9 witness: a 1000-byte payload was encoded into 1044 bytes, the sizes
\* 1036 and 1000 spread over two bytes each.
C9_Witness ==
    /\ gwOut.called /\ gwOut.result.ok
    /\ FirstAudio(gwIn) = ScenarioBase64
    /\ Len(Wav) = 1044
    /\ SubSeq(Wav, 5, 8) = <<12, 4, 0, 0>>
    /\ SubSeq(Wav, 41, 44) = <<232, 3, 0, 0>>

\* A response carries audio when a part of its first candidate has inline
\* data that decodes, and text when a part has text.
AudioParts(response) ==
    IF response.hasCandidate
    THEN {i \in 1 .. Len(response.parts) :
            response.parts[i].data # <<>> /\ ~AtobThrows(response.parts[i].data)}
    ELSE {}
TextParts(response) ==
    IF response.hasCandidate
    THEN {i \in 1 .. Len(response.parts) : response.parts[i].text # ""}
    ELSE {}
Undecodable(response) ==
    /\ response.hasCandidate
    /\ \E i \in 1 .. Len(response.parts) : AtobThrows(response.parts[i].data)

\* C10: a response with audio succeeds with the encoding of that audio; one
\* with text and no audio fails as refused, the message carrying the text;
\* one with neither fails as incomplete, the message carrying the finish
\* reason.
C10_Classification ==
    (gwOut.op = "generateDubbedAudio" /\ ~gwIn.rejected /\ ~Undecodable(gwIn)) =>
        LET r == gwOut.result
        IN  IF AudioParts(gwIn) # {}
            THEN /\ r.ok
                 /\ \E i \in AudioParts(gwIn) :
                       r.value = WavBlob(Atob(gwIn.parts[i].data))
            ELSE IF TextParts(gwIn) # {}
            THEN /\ ~r.ok
                 /\ \E i \in TextParts(gwIn) :
                       r.message = MsgRefusedPrefix \o gwIn.parts[i].text
            ELSE /\ ~r.ok
                 /\ r.message \in {MsgNoAudioPrefix \o fr \o "." :
                                    fr \in {gwIn.finishReason, "UNKNOWN"}}

-----------------------------------------------------------------------------
(* Credential, triggers during a call, state tag and fields *)

\* What last.call shows of a call that failed on the missing credential:
\* analyze fails after the file was read and before its request, translate
\* and synthesize before they await anything.
FailedOnCredential(op) ==
    /\ last.call.op = op
    /\ last.call.stage = (IF op = "analyze" THEN "read" ELSE "")
    /\ last.text # ReadRejected

\* C11: while no credential is configured no request is issued (no call
\* moves to the network stage, no translation or synthesis call is started),
\* and each of analyze, translate and synthesize fails on the missing
\* credential: the failure records the MissingCredential message, leaves
\* the state at the pre-call state (IDLE for analyze, LYRICS_REVIEW for
\* translate, DUBBING for synthesize), assigns no songData field and starts
\* no further call.
C11_MissingCredential ==
    ~apiKey =>
        /\ last.ev \notin {"analyzeRequest", "startTranslation", "startSynthesis"}
        /\ (last.ev = "analyzeFail" /\ FailedOnCredential("analyze")
                /\ last.applied) =>
               /\ error = MsgNoApiKey
               /\ state = "IDLE"
               /\ songData = last.before
               /\ BagCardinality(inflight) = last.pendingBefore - 1
        /\ (last.ev = "translateFail" /\ FailedOnCredential("translate")) =>
               /\ error = MsgNoApiKey
               /\ last.stateBefore = "LYRICS_REVIEW" /\ state = "LYRICS_REVIEW"
               /\ songData = last.before
               /\ BagCardinality(inflight) = last.pendingBefore
        /\ (last.ev = "synthFail" /\ FailedOnCredential("synthesize")) =>
               /\ error = MsgNoApiKey
               /\ last.stateBefore = "DUBBING" /\ state = "DUBBING"
               /\ ~isDubbingLoading
               /\ songData = last.before
               /\ BagCardinality(inflight) = last.pendingBefore

\* A synthesis was triggered in DUBBING without a credential and has failed
\* on it, after the analysis and the translation of the same Session had
\* succeeded with one.
C11_Witness ==
    /\ ~apiKey
    /\ last.ev = "synthFail" /\ FailedOnCredential("synthesize")
    /\ state = "DUBBING" /\ error = MsgNoApiKey
    /\ songData.analysis.present /\ Len(songData.translations) > 0

\* The same for translate in LYRICS_REVIEW and for analyze.
C11_TranslateCase ==
    /\ ~apiKey
    /\ last.ev = "translateFail" /\ FailedOnCredential("translate")
    /\ state = "LYRICS_REVIEW" /\ error = MsgNoApiKey
C11_AnalyzeCase ==
    /\ ~apiKey
    /\ last.ev = "analyzeFail" /\ FailedOnCredential("analyze") /\ last.applied
    /\ last.stateBefore = "ANALYZING" /\ state = "IDLE" /\ error = MsgNoApiKey

\* The events that are triggers of the user (as opposed to completions of
\* calls).
Triggers ==
    {"reset", "selectFileNone", "selectFileTooLarge", "selectFile",
     "selectTargetLanguage", "startAnalysis", "startTranslation",
     "startSynthesis"}

\* C12: while a started call has not completed, no trigger changes the state
\* or the songData: a trigger taken with a call pending leaves both as they
\* were.
C12_NoTriggerDuringCall ==
    (last.ev \in Triggers /\ last.pendingBefore > 0) =>
        /\ state = last.stateBefore
        /\ songData = last.before

\* C13: the state tag agrees with the populated fields: LYRICS_REVIEW implies
\* analysis is present; DUBBING implies analysis is present and translations
\* is non-empty; COMPLETE implies analysis, a non-empty translations and
\* dubbedAudioUrl are all present.
C13_TagAgreesWithFields ==
    /\ state = "LYRICS_REVIEW" => songData.analysis.present
    /\ state = "DUBBING" =>
           /\ songData.analysis.present
           /\ Len(songData.translations) > 0
    /\ state = "COMPLETE" =>
           /\ songData.analysis.present
           /\ Len(songData.translations) > 0
           /\ songData.dubbedAudioUrl # 0

\* The events that complete a call, with success or with failure.
Completions ==
    {"analyzeOk", "analyzeFail", "translateOk", "translateFail",
     "synthOk", "synthFail"}

\* C14: a call started before a reset does not affect the Session created by
\* that reset: when it completes, with success or failure, the state, the
\* songData (analysis, translations, dubbedAudioUrl) and the error field are
\* what they were before the completion.
C14_StaleCallIgnored ==
    (last.ev \in Completions /\ last.call.stale) =>
        /\ state = last.stateBefore
        /\ songData = last.before
        /\ error = last.errorBefore

-----------------------------------------------------------------------------
(* Error field, ERROR tag, busy conditions *)

\* C15: whenever selectFile, startAnalysis, startTranslation or
\* startSynthesis completes successfully the error field is empty
\* afterwards, so no message of an earlier failed attempt is still set in
\* LYRICS_REVIEW, DUBBING or COMPLETE after a later success.
C15_ErrorClearedOnSuccess ==
    (last.ev \in {"selectFile", "analyzeOk", "translateOk", "synthOk"}
        /\ last.applied) =>
        error = ""

\* C16: the state tag ERROR is never reached: the state is always one of
\* IDLE, ANALYZING, LYRICS_REVIEW, DUBBING, COMPLETE, and a failure that has
\* just been handled shows in the error field, which then holds a message.
C16_ErrorTagUnreachable ==
    /\ state \in AppState \ {"ERROR"}
    /\ (last.ev \in {"analyzeFail", "translateFail", "synthFail",
                     "selectFileTooLarge"} /\ last.applied) =>
           error # ""

\* An analysis request has failed with the service's own message and the
\* catch block has run.
C16_Witness ==
    /\ last.ev = "analyzeFail" /\ last.applied
    /\ last.call.stage = "net"
    /\ error = MsgNoAnalysisResponse
    /\ state = "IDLE"

\* C17: when every call is answered, no busy condition lasts forever: the
\* state ANALYZING is always followed by a state other than ANALYZING, and a
\* true loading flag is always followed by a false one.
C17_BusyEnds ==
    /\ (state = "ANALYZING") ~> (state # "ANALYZING")
    /\ isDubbingLoading ~> ~isDubbingLoading

\* What does hold when every call is answered: ANALYZING always ends, and
\* the loading flag is cleared unless the tree was unmounted while it was
\* set.
BusyEndsWhileMounted ==
    /\ (state = "ANALYZING") ~> (state # "ANALYZING")
    /\ isDubbingLoading ~> (~isDubbingLoading \/ ~mounted)

====
